---- MODULE Spec2Model ----
(***************************************************************************)
(* The rocket race dashboard (src/dashboard.py): load_race_data resolves   *)
(* one of three on-disk sources (the live results file, the latest backup  *)
(* file, the participant list), converts it to the dashboard's columns and *)
(* stores the session metadata; main() then searches the collection and    *)
(* extracts the fun facts.                                                 *)
(*                                                                         *)
(* Strings the code edits or matches (usernames, queries) are sequences of *)
(* one-character strings.  A missing JSON key, an empty CSV cell and a     *)
(* pandas NaN are all the value NaN (numbers) or NaNStr (strings).         *)
(***************************************************************************)
EXTENDS Integers, Sequences, FiniteSets, TLC

VARIABLES
    live,           \* latest_race_results.json: [exists, content]
    backups,        \* rocket_race_results_*.json: path -> [exists, ctime, content]
    csv,            \* the participant list export: [exists, rows]
    pc,             \* position of the script run
    race_files,     \* what glob.glob returned, in its enumeration order
    latest_file,    \* the backup file chosen by max(..., key=getctime)
    opened,         \* the files the cycle passed to open()/read_csv
    data_source,    \* load_race_data's local data_source when it returned
    raised,         \* TRUE when the cycle ended in the outer except
    df,             \* the DataFrame load_race_data returned (sequence of rows)
    race_metadata,  \* st.session_state.race_metadata
    has_race_data,  \* main's has_race_data
    search_username,\* the text typed into "Find Your Rank"
    search_results, \* rows selected by the search
    performance,    \* the performance comparison shown for each search result
    search_term,    \* the text typed into "Search Username" (participants table)
    filtered_df,    \* the participants table after its filters
    fun_facts,      \* the four superlatives of the fun facts section
    cycle,          \* the number of the script run (1 for the first run of the session)
    meta_cycle,     \* the run that last assigned st.session_state.race_metadata (0: none)
    stale_metadata, \* what st.session_state held when the run called load_race_data
    shown_metadata  \* main's local race_metadata, read from the session state

vars == <<live, backups, csv, pc, race_files, latest_file, opened, data_source,
          raised, df, race_metadata, has_race_data, search_username,
          search_results, performance, search_term, filtered_df, fun_facts,
          cycle, meta_cycle, stale_metadata, shown_metadata>>

fsvars == <<live, backups, csv>>
sessionvars == <<cycle, meta_cycle, stale_metadata, shown_metadata>>

-----------------------------------------------------------------------------
(* Bounds of the model *)

MaxCtime == 2
MaxRecords == 3
MaxQueryLen == 2
MaxCycles == 3

-----------------------------------------------------------------------------
(* Values *)

NaN == -1
NaNStr == <<"nan">>
NoFile == ""

LATEST == "latest_race_results.json"
CSVFILE == "instaExport-2025-08-16T08_51_29.380Z.csv"
Paths == {"rocket_race_results_A.json", "rocket_race_results_B.json"}

SrcUnknown == <<"Unknown", NoFile>>
SrcLive == <<"Latest Results (Real-time)", NoFile>>
SrcBackup(p) == <<"Backup File", p>>
SrcCsv == <<"CSV participant list", NoFile>>

\* One raw per-participant record of a race-tier file.
Raw(u, fn, t, s, b, c, d, r) ==
    [username |-> u, fullName |-> fn, raceTime |-> t, averageSpeed |-> s,
     boostsUsed |-> b, collisions |-> c, distanceCovered |-> d, rank |-> r]

P1 == Raw(<<"@", "a", "b">>, <<"A", "l">>, 10, 40, 3, 0, 5, 1)
P2 == Raw(<<"b", "@", "a">>, NaNStr, 12, 35, 7, 2, 6, 2)
P3 == Raw(<<"B", "a">>, <<"B", "o">>, 12, 30, 7, 1, 4, 3)
P4 == Raw(<<"a">>, <<"A", "n">>, NaN, 20, 1, 2, 3, 4)
RawPool == {P1, P2, P3, P4}

\* One row of the participant list export.
CsvRow(u, fn) == [Username |-> u, FullName |-> fn]
Q1 == CsvRow(<<" ", "c", "a", " ">>, NaNStr)
Q2 == CsvRow(<<"d", "b">>, <<"D", "e", "e">>)

\* Parsed content of a race-tier file.  st: "unreadable" (open or json.load
\* raises: malformed content, an I/O error, or the file removed after it was
\* listed), "emptyobj" ({}), "object" (a dict with at least one key).  Every
\* per-participant record carries a username, as the producer writes it.
Content(st, status, hasResults, results, tp, fin, dur) ==
    [st |-> st, status |-> status, hasResults |-> hasResults, results |-> results,
     totalParticipants |-> tp, finishers |-> fin, actualDuration |-> dur]
Unreadable == Content("unreadable", "missing", FALSE, <<>>, NaN, NaN, NaN)
EmptyObj == Content("emptyobj", "missing", FALSE, <<>>, NaN, NaN, NaN)
None == Content("None", "missing", FALSE, <<>>, NaN, NaN, NaN)

AbsentLive == [exists |-> FALSE, content |-> None]
AbsentBackup == [exists |-> FALSE, ctime |-> 0, content |-> None]
AbsentCsv == [exists |-> FALSE, rows |-> <<>>]

NoMetadata ==
    [set |-> FALSE, race_duration |-> 0, total_participants |-> 0,
     finishers |-> 0, data_source |-> SrcUnknown]

NoFacts == [raised |-> FALSE, booster |-> 0, crash |-> 0, distance |-> 0, speed |-> 0]

-----------------------------------------------------------------------------
(* String helpers: what the pandas .str accessors do, character by character *)

RECURSIVE StrReplace(_, _)
\* Series.str.replace(old, '', regex=False): every occurrence of old is removed.
StrReplace(s, old) ==
    IF s = <<>> THEN <<>>
    ELSE (IF Head(s) = old THEN <<>> ELSE <<Head(s)>>) \o StrReplace(Tail(s), old)

RECURSIVE LStrip(_)
LStrip(s) == IF s # <<>> /\ Head(s) = " " THEN LStrip(Tail(s)) ELSE s

RECURSIVE RStrip(_)
RStrip(s) ==
    IF s # <<>> /\ s[Len(s)] = " " THEN RStrip(SubSeq(s, 1, Len(s) - 1)) ELSE s

\* Series.str.strip(): leading and trailing whitespace removed.
StrStrip(s) == RStrip(LStrip(s))

-----------------------------------------------------------------------------
(* load_race_data *)

\* One row of the returned DataFrame, under the renamed columns.
Row(u, fn, t, s, b, c, d, r) ==
    [Username |-> u, FullName |-> fn, RaceTime |-> t, Speed |-> s,
     BoostsUsed |-> b, Collisions |-> c, Distance |-> d, Rank |-> r]

\* Method 1: the dedicated latest results file.
Tier1(l) ==
    IF ~l.exists
    THEN [race_data |-> None, data_source |-> SrcUnknown, opened |-> {}]
    ELSE IF /\ l.content.st = "object"
            /\ l.content.status = "completed"
            /\ l.content.hasResults
         THEN [race_data |-> l.content, data_source |-> SrcLive, opened |-> {LATEST}]
         ELSE [race_data |-> None, data_source |-> SrcUnknown, opened |-> {LATEST}]

\* Python truthiness of race_data: None and {} are false.
Truthy(rd) == rd.st = "object"

\* Mutant of LatestOf: min in place of max, the oldest file is chosen.
LatestOf_Oldest(files, bk) ==
    LET best == CHOOSE i \in 1..Len(files) :
                    /\ \A j \in 1..Len(files) : bk[files[i]].ctime <= bk[files[j]].ctime
                    /\ \A j \in 1..(i - 1) : bk[files[i]].ctime < bk[files[j]].ctime
    IN  files[best]

\* max(race_files, key=os.path.getctime): the first file of the enumeration
\* whose creation time no other file exceeds.
LatestOf(files, bk) ==
    LET best == CHOOSE i \in 1..Len(files) :
                    /\ \A j \in 1..Len(files) : bk[files[j]].ctime <= bk[files[i]].ctime
                    /\ \A j \in 1..(i - 1) : bk[files[j]].ctime < bk[files[i]].ctime
    IN  files[best]

\* Mutant of Tier2: the "if not race_data" guard is dropped, a backup file
\* replaces what method 1 selected.
Tier2_Unguarded(t1, bk, files) ==
    IF files = <<>>
    THEN [race_data |-> t1.race_data, data_source |-> t1.data_source,
          opened |-> t1.opened, latest_file |-> NoFile, raised |-> FALSE,
          race_files |-> files]
    ELSE LET f == LatestOf(files, bk) IN
         [race_data |-> IF bk[f].content.st = "unreadable" THEN None
                        ELSE bk[f].content,
          data_source |-> SrcBackup(f),
          opened |-> t1.opened \cup {f},
          latest_file |-> f,
          raised |-> bk[f].content.st = "unreadable",
          race_files |-> files]

\* Method 2: the most recent backup file, when method 1 selected nothing.
Tier2(t1, bk, files) ==
    IF Truthy(t1.race_data) \/ files = <<>>
    THEN [race_data |-> t1.race_data, data_source |-> t1.data_source,
          opened |-> t1.opened, latest_file |-> NoFile, raised |-> FALSE,
          race_files |-> IF Truthy(t1.race_data) THEN <<>> ELSE files]
    ELSE LET f == LatestOf(files, bk) IN
         [race_data |-> IF bk[f].content.st = "unreadable" THEN None
                        ELSE bk[f].content,
          data_source |-> SrcBackup(f),
          opened |-> t1.opened \cup {f},
          latest_file |-> f,
          raised |-> bk[f].content.st = "unreadable",
          race_files |-> files]

\* Mutant of CleanUsername: only a leading "@" is removed (str.lstrip('@')
\* on a single sigil).
CleanUsername_LeadingOnly(u) == IF u # <<>> /\ Head(u) = "@" THEN Tail(u) ELSE u

\* Clean username format: df['Username'].str.replace('@', '', regex=False)
CleanUsername(u) == StrReplace(u, "@")

\* DataFrame(race_data['results']) with the columns renamed and the username cleaned.
ConvertRecord(r) ==
    Row(CleanUsername(r.username), r.fullName, r.raceTime, r.averageSpeed,
        r.boostsUsed, r.collisions, r.distanceCovered, r.rank)

\* dict.get(key, 0) on a key the file may lack.
GetOr0(v) == IF v = NaN THEN 0 ELSE v

\* The race branch: raises KeyError when the payload has no 'results' key, or
\* when the results are empty (the DataFrame then has no 'Username' column).
RaceBranch(rd, ds, meta) ==
    IF ~rd.hasResults \/ rd.results = <<>>
    THEN [df |-> <<>>, race_metadata |-> meta, wrote |-> FALSE, raised |-> TRUE]
    ELSE [df |-> [i \in 1..Len(rd.results) |-> ConvertRecord(rd.results[i])],
          race_metadata |->
              [set |-> TRUE, race_duration |-> GetOr0(rd.actualDuration),
               total_participants |-> GetOr0(rd.totalParticipants),
               finishers |-> GetOr0(rd.finishers),
               data_source |-> ds],
          wrote |-> TRUE,
          raised |-> FALSE]

\* One row of the participant list with the placeholder columns.
PlaceholderRow(q, i) ==
    LET u == StrStrip(q.Username) IN
    Row(u, IF q.FullName = NaNStr THEN u ELSE q.FullName, NaN, NaN, 0, 0, NaN, i)

\* Mutant of CsvBranch: the participant list is returned without the
\* assignment to st.session_state.race_metadata.
CsvBranch_StaleMetadata(c, meta) ==
    IF ~c.exists
    THEN [df |-> <<>>, race_metadata |-> meta, wrote |-> FALSE, raised |-> TRUE]
    ELSE [df |-> [i \in 1..Len(c.rows) |-> PlaceholderRow(c.rows[i], i)],
          race_metadata |-> meta,
          wrote |-> FALSE,
          raised |-> FALSE]

\* The fallback branch: the CSV shown as participant list.  wrote tells
\* whether the branch reached its assignment to the session state.
CsvBranch(c, meta) ==
    IF ~c.exists
    THEN [df |-> <<>>, race_metadata |-> meta, wrote |-> FALSE, raised |-> TRUE]
    ELSE [df |-> [i \in 1..Len(c.rows) |-> PlaceholderRow(c.rows[i], i)],
          race_metadata |->
              [set |-> TRUE, race_duration |-> 0,
               total_participants |-> Len(c.rows), finishers |-> 0,
               data_source |-> SrcCsv],
          wrote |-> TRUE,
          raised |-> FALSE]

\* The whole function: any exception outside method 1 ends in the outer
\* except, which returns an empty DataFrame and leaves the session state alone.
LoadRaceData(l, bk, c, files, meta) ==
    LET t2 == Tier2(Tier1(l), bk, files)
        out == IF t2.raised
               THEN [df |-> <<>>, race_metadata |-> meta, wrote |-> FALSE, raised |-> TRUE]
               ELSE IF Truthy(t2.race_data)
                    THEN RaceBranch(t2.race_data, t2.data_source, meta)
                    ELSE CsvBranch(c, meta)
        csvRead == ~t2.raised /\ ~Truthy(t2.race_data)
    IN  [df |-> out.df, race_metadata |-> out.race_metadata, wrote |-> out.wrote,
         raised |-> out.raised,
         opened |-> t2.opened \cup (IF csvRead THEN {CSVFILE} ELSE {}),
         data_source |-> t2.data_source,
         race_files |-> t2.race_files, latest_file |-> t2.latest_file]

\* The orders in which glob.glob may list the existing backup files.
Enumerations(bk) ==
    LET S == {p \in Paths : bk[p].exists} IN
    {e \in [1..Cardinality(S) -> S] : \A i, j \in 1..Cardinality(S) : i # j => e[i] # e[j]}

-----------------------------------------------------------------------------
(* main: the analytics over the loaded DataFrame *)

Lower(c) == IF c = "A" THEN "a" ELSE IF c = "B" THEN "b" ELSE c

\* re.compile raises on an unbalanced parenthesis.
ValidRegex(pat) == \A j \in 1..Len(pat) : pat[j] # "("

\* re.search(pat, s, re.IGNORECASE): "." matches any character, any other
\* character of the model matches itself up to case.
RegexSearch(pat, s) ==
    \E i \in 0..(Len(s) - Len(pat)) :
        \A j \in 1..Len(pat) : pat[j] = "." \/ Lower(pat[j]) = Lower(s[i + j])

\* Series.str.contains(pat, case=False, na=False): regex=True is the default.
StrContains(s, pat) == s # NaNStr /\ RegexSearch(pat, s)

\* df[df['Username'].str.contains(q, case=False, na=False)]
SearchRows(d, q) == SelectSeq(d, LAMBDA r : StrContains(r.Username, q))

\* DataFrame.head(n)
Head_(d, n) == SubSeq(d, 1, IF Len(d) < n THEN Len(d) ELSE n)

Column(r, f) ==
    CASE f = "Boosts Used" -> r.BoostsUsed
      [] f = "Collisions" -> r.Collisions
      [] f = "Distance Covered (km)" -> r.Distance
      [] f = "Speed (km/h)" -> r.Speed
      [] f = "Race Time (s)" -> r.RaceTime

\* Mutant of IdxMax: the last row holding the maximum is reported.
IdxMax_Last(d, f) ==
    LET present == {i \in 1..Len(d) : Column(d[i], f) # NaN} IN
    IF present = {} THEN 0
    ELSE CHOOSE i \in present :
            /\ \A j \in present : Column(d[j], f) <= Column(d[i], f)
            /\ \A j \in present : j > i => Column(d[j], f) < Column(d[i], f)

\* Series.idxmax(): the label of the first row holding the maximum, NaN
\* skipped; 0 stands for the exception an all-NaN or missing column raises.
\* The label of row i of the returned DataFrame is its position.
IdxMax(d, f) ==
    LET present == {i \in 1..Len(d) : Column(d[i], f) # NaN} IN
    IF present = {} THEN 0
    ELSE CHOOSE i \in present :
            /\ \A j \in present : Column(d[j], f) <= Column(d[i], f)
            /\ \A j \in present : j < i => Column(d[j], f) < Column(d[i], f)

\* not df['Race Time (s)'].isna().all()
HasRaceData(d) == \E i \in 1..Len(d) : d[i].RaceTime # NaN

RECURSIVE SumTimes(_)
\* Series.sum() of 'Race Time (s)': NaN is skipped.
SumTimes(d) ==
    IF d = <<>> THEN 0
    ELSE (IF Head(d).RaceTime = NaN THEN 0 ELSE Head(d).RaceTime) + SumTimes(Tail(d))

\* Series.count(): the rows whose race time is not NaN.
CountTimes(d) == Cardinality({i \in 1..Len(d) : d[i].RaceTime # NaN})

\* time_diff = user['Race Time (s)'] - df['Race Time (s)'].mean(), as the exact
\* fraction num/den; NaN when the user's time or the mean is NaN.
TimeDiff(d, user) ==
    IF user.RaceTime = NaN \/ CountTimes(d) = 0
    THEN [nan |-> TRUE, num |-> 0, den |-> 1]
    ELSE [nan |-> FALSE,
          num |-> user.RaceTime * CountTimes(d) - SumTimes(d),
          den |-> CountTimes(d)]

\* Mutant of FasterThan: >= in place of >, records tied with the user count.
FasterThan_OrEqual(d, user) ==
    [num |-> 100 * Cardinality({i \in 1..Len(d) :
                /\ d[i].RaceTime # NaN /\ user.RaceTime # NaN
                /\ d[i].RaceTime >= user.RaceTime}),
     den |-> Len(d)]

\* faster_than = ((df['Race Time (s)'] > user['Race Time (s)']).sum() / len(df)) * 100,
\* as the exact fraction num/den; a comparison with NaN is false.
FasterThan(d, user) ==
    [num |-> 100 * Cardinality({i \in 1..Len(d) :
                /\ d[i].RaceTime # NaN /\ user.RaceTime # NaN
                /\ d[i].RaceTime > user.RaceTime}),
     den |-> Len(d)]

\* The performance comparison of each search result: only "if len(df) > 1".
Performance(d, results) ==
    IF Len(d) > 1
    THEN [i \in 1..Len(results) |->
            [time_diff |-> TimeDiff(d, results[i]),
             faster_than |-> FasterThan(d, results[i])]]
    ELSE <<>>

Chars == {"a", "B", ".", "("}
RECURSIVE SeqsUpTo(_, _)
SeqsUpTo(S, n) ==
    IF n = 0 THEN {<<>>}
    ELSE LET shorter == SeqsUpTo(S, n - 1) IN
         shorter \cup {Append(q, c) : q \in {x \in shorter : Len(x) = n - 1}, c \in S}
Queries == SeqsUpTo(Chars, MaxQueryLen)
ShowTop == 25

-----------------------------------------------------------------------------
(* The files a run may find on disk *)

Statuses == {"completed", "running", "missing"}

\* The dicts a race-tier file may parse to, over the result lists RL.
Objects(RL, SS, TP, FIN) ==
    {Content("object", st, TRUE, rs, tp, fin, NaN) :
        st \in SS, rs \in RL, tp \in TP, fin \in FIN}
    \cup {Content("object", st, FALSE, <<>>, NaN, NaN, NaN) : st \in SS}

ResultLists == {<<>>, <<P1>>, <<P3, P4>>}

LiveFiles ==
    {AbsentLive} \cup
    {[exists |-> TRUE, content |-> c] :
        c \in {Unreadable, EmptyObj} \cup Objects(ResultLists, Statuses, {NaN}, {NaN})}

BackupFiles ==
    {AbsentBackup} \cup
    {[exists |-> TRUE, ctime |-> t, content |-> c] :
        t \in 1..MaxCtime,
        c \in {Unreadable, EmptyObj} \cup Objects(ResultLists, {"completed"}, {NaN}, {NaN})}

CsvFiles == {AbsentCsv} \cup {[exists |-> TRUE, rows |-> rs] : rs \in {<<>>, <<Q1, Q2>>}}

\* The files of a run of main: a completed live file holding any list of up to
\* MaxRecords records, or only the participant list.
DataLists == SeqsUpTo(RawPool, MaxRecords) \ {<<>>}

InitRun ==
    /\ pc = "start"
    /\ race_files = <<>>
    /\ latest_file = NoFile
    /\ opened = {}
    /\ data_source = SrcUnknown
    /\ raised = FALSE
    /\ df = <<>>
    /\ race_metadata = NoMetadata
    /\ has_race_data = FALSE
    /\ search_username = <<>>
    /\ search_results = <<>>
    /\ performance = <<>>
    /\ search_term = <<>>
    /\ filtered_df = <<>>
    /\ fun_facts = NoFacts
    /\ cycle = 1
    /\ meta_cycle = 0
    /\ stale_metadata = NoMetadata
    /\ shown_metadata = NoMetadata

Init ==
    /\ live \in LiveFiles
    /\ backups \in [Paths -> BackupFiles]
    /\ csv \in CsvFiles
    /\ InitRun

InitMain ==
    /\ \/ /\ live \in {[exists |-> TRUE, content |-> c] :
                        c \in Objects(DataLists, {"completed"}, {NaN, 2}, {NaN, 3})}
          /\ csv = AbsentCsv
       \/ /\ live = AbsentLive
          /\ csv \in {[exists |-> TRUE, rows |-> rs] :
                        rs \in {<<Q1>>, <<Q1, Q2>>, <<Q2, Q1>>}}
    /\ backups = [p \in Paths |-> AbsentBackup]
    /\ InitRun

\* The files of a session that is refreshed: a live file that is completed,
\* still running, or completed without records; backup files that parse or
\* not; the participant list.
RefreshLive ==
    {AbsentLive} \cup
    {[exists |-> TRUE, content |-> c] :
        c \in {Content("object", "completed", TRUE, <<P1>>, 2, NaN, NaN),
               Content("object", "running", TRUE, <<P1>>, NaN, NaN, NaN),
               Content("object", "completed", TRUE, <<>>, NaN, NaN, NaN)}}

RefreshBackups ==
    {AbsentBackup} \cup
    {[exists |-> TRUE, ctime |-> t, content |-> c] :
        t \in 1..MaxCtime,
        c \in {Unreadable, Content("object", "completed", TRUE, <<P3, P4>>, NaN, NaN, NaN)}}

RefreshCsv == {AbsentCsv, [exists |-> TRUE, rows |-> <<Q1, Q2>>]}

InitRefresh ==
    /\ live \in RefreshLive
    /\ backups \in [Paths -> RefreshBackups]
    /\ csv \in RefreshCsv
    /\ InitRun

-----------------------------------------------------------------------------
(* Actions *)

\* df = load_race_data()
Load ==
    /\ pc = "start"
    /\ \E files \in Enumerations(backups) :
        LET r == LoadRaceData(live, backups, csv, files, race_metadata) IN
        /\ df' = r.df
        /\ race_metadata' = r.race_metadata
        /\ raised' = r.raised
        /\ opened' = r.opened
        /\ data_source' = r.data_source
        /\ race_files' = r.race_files
        /\ latest_file' = r.latest_file
        /\ meta_cycle' = IF r.wrote THEN cycle ELSE meta_cycle
    /\ stale_metadata' = race_metadata
    /\ pc' = "loaded"
    /\ UNCHANGED <<fsvars, has_race_data, search_username, search_results,
                   performance, search_term, filtered_df, fun_facts,
                   cycle, shown_metadata>>

\* main after the load: an empty DataFrame ends the run with an error; else
\* has_race_data is computed and the metadata is read from the session state.
\* A DataFrame built from race records none of which carried raceTime has no
\* 'Race Time (s)' column, and the lookup raises; the participant list always
\* has the column.
Present ==
    /\ pc = "loaded"
    /\ IF df = <<>>
       THEN pc' = "failed" /\ UNCHANGED <<has_race_data, shown_metadata>>
       ELSE IF CSVFILE \notin opened /\ ~HasRaceData(df)
            THEN pc' = "key_error" /\ UNCHANGED <<has_race_data, shown_metadata>>
            ELSE /\ pc' = "shown"
                 /\ has_race_data' = HasRaceData(df)
                 /\ shown_metadata' = race_metadata
    /\ UNCHANGED <<fsvars, race_files, latest_file, opened, data_source, raised, df,
                   race_metadata, search_username, search_results, performance,
                   search_term, filtered_df, fun_facts,
                   cycle, meta_cycle, stale_metadata>>

\* "Find Your Rank": nothing is searched for an empty text; an invalid
\* pattern raises out of main.  With race data each result is shown with its
\* performance comparison; the participant-list branch shows none.
SearchUsername ==
    /\ pc = "shown"
    /\ \E q \in Queries :
        /\ search_username' = q
        /\ IF q = <<>>
           THEN pc' = "searched" /\ UNCHANGED <<search_results, performance>>
           ELSE IF ~ValidRegex(q)
                THEN pc' = "re_error" /\ UNCHANGED <<search_results, performance>>
                ELSE /\ pc' = "searched"
                     /\ search_results' = SearchRows(df, q)
                     /\ performance' = IF has_race_data
                                       THEN Performance(df, SearchRows(df, q))
                                       ELSE <<>>
    /\ UNCHANGED <<fsvars, race_files, latest_file, opened, data_source, raised, df,
                   race_metadata, has_race_data, search_term, filtered_df, fun_facts,
                   sessionvars>>

\* "All Participants" (no race data): the table filtered by the search term,
\* then cut to the "Show Top" choice.
ParticipantsTable ==
    /\ pc = "searched"
    /\ ~has_race_data
    /\ \E q \in Queries :
        /\ search_term' = q
        /\ IF q = <<>>
           THEN pc' = "tabled" /\ filtered_df' = Head_(df, ShowTop)
           ELSE IF ~ValidRegex(q)
                THEN pc' = "re_error" /\ UNCHANGED filtered_df
                ELSE pc' = "tabled" /\ filtered_df' = Head_(SearchRows(df, q), ShowTop)
    /\ UNCHANGED <<fsvars, race_files, latest_file, opened, data_source, raised, df,
                   race_metadata, has_race_data, search_username, search_results,
                   performance, fun_facts, sessionvars>>

\* "Fun Race Facts" (race data): the four superlatives.
FunFacts ==
    /\ pc = "searched"
    /\ has_race_data
    /\ LET b == IdxMax(df, "Boosts Used")
           c == IdxMax(df, "Collisions")
           d == IdxMax(df, "Distance Covered (km)")
           s == IdxMax(df, "Speed (km/h)")
       IN  IF b = 0 \/ c = 0 \/ d = 0 \/ s = 0
           THEN pc' = "idxmax_error" /\ fun_facts' = [NoFacts EXCEPT !.raised = TRUE]
           ELSE pc' = "done" /\
                fun_facts' = [raised |-> FALSE, booster |-> b, crash |-> c,
                              distance |-> d, speed |-> s]
    /\ UNCHANGED <<fsvars, race_files, latest_file, opened, data_source, raised, df,
                   race_metadata, has_race_data, search_username, search_results,
                   performance, search_term, filtered_df, sessionvars>>

\* st.rerun(), or any interaction with the page: the script starts over.  The
\* locals of the run are gone, the session state and the widget values stay.
Rerun ==
    /\ pc # "start"
    /\ cycle < MaxCycles
    /\ pc' = "start"
    /\ cycle' = cycle + 1
    /\ race_files' = <<>>
    /\ latest_file' = NoFile
    /\ opened' = {}
    /\ data_source' = SrcUnknown
    /\ raised' = FALSE
    /\ df' = <<>>
    /\ has_race_data' = FALSE
    /\ shown_metadata' = NoMetadata
    /\ UNCHANGED <<fsvars, race_metadata, meta_cycle, stale_metadata,
                   search_username, search_results, performance, search_term,
                   filtered_df, fun_facts>>

\* Between two runs the race writes, replaces or removes one of the files
\* load_race_data looks for.
FileChange ==
    /\ pc = "start"
    /\ \/ live' \in RefreshLive \ {live} /\ UNCHANGED <<backups, csv>>
       \/ \E p \in Paths : \E b \in RefreshBackups \ {backups[p]} :
            backups' = [backups EXCEPT ![p] = b] /\ UNCHANGED <<live, csv>>
       \/ csv' \in RefreshCsv \ {csv} /\ UNCHANGED <<live, backups>>
    /\ UNCHANGED <<pc, race_files, latest_file, opened, data_source, raised, df,
                   race_metadata, has_race_data, search_username, search_results,
                   performance, search_term, filtered_df, fun_facts, sessionvars>>

Next == Load \/ Present

NextMain == Load \/ Present \/ SearchUsername \/ ParticipantsTable \/ FunFacts

\* One resolution cycle over every combination of files.
Spec == Init /\ [][Next]_vars

\* One run of main over a completed live file or the participant list.
SpecMain == InitMain /\ [][NextMain]_vars

NextRefresh == Load \/ Present \/ Rerun \/ FileChange

\* Up to MaxCycles runs of one session, the files changing between the runs.
SpecRefresh == InitRefresh /\ [][NextRefresh]_vars

-----------------------------------------------------------------------------
(* Vocabulary of the properties, stated without the operators of the model *)

\* load_race_data has returned.
Loaded == pc # "start"

LiveParses == live.exists /\ live.content.st \in {"object", "emptyobj"}

\* The live file exists, parses, has status "completed" and a results collection.
LiveCompleted ==
    /\ live.exists
    /\ live.content.st = "object"
    /\ live.content.status = "completed"
    /\ live.content.hasResults

Existing == {p \in Paths : backups[p].exists}
Readable == {p \in Existing : backups[p].content.st # "unreadable"}
\* The backup files that parse and carry at least one record.
Usable ==
    {p \in Existing : backups[p].content.hasResults /\ backups[p].content.results # <<>>}

WithoutAt(u) == SelectSeq(u, LAMBDA c : c # "@")
WithoutLeadingAt(u) == IF u # <<>> /\ Head(u) = "@" THEN Tail(u) ELSE u

\* Row d of the DataFrame carries the values of raw record r, username aside.
SameValues(d, r) ==
    /\ d.FullName = r.fullName
    /\ d.RaceTime = r.raceTime
    /\ d.Speed = r.averageSpeed
    /\ d.BoostsUsed = r.boostsUsed
    /\ d.Collisions = r.collisions
    /\ d.Distance = r.distanceCovered
    /\ d.Rank = r.rank

\* d is the records rs of a race-tier file, one row per record, in order.
RecordsOf(d, rs) ==
    /\ Len(d) = Len(rs)
    /\ \A i \in 1..Len(rs) :
        d[i].Username = WithoutAt(rs[i].username) /\ SameValues(d[i], rs[i])

Trimmed(u) ==
    LET idx == {i \in 1..Len(u) : u[i] # " "} IN
    IF idx = {} THEN <<>>
    ELSE SubSeq(u, CHOOSE i \in idx : \A j \in idx : i <= j,
                   CHOOSE i \in idx : \A j \in idx : j <= i)

\* d is the participant list: one pending row per row of the export, in order.
ParticipantsOf(d, rows) ==
    /\ Len(d) = Len(rows)
    /\ \A i \in 1..Len(rows) :
        /\ d[i].Username = Trimmed(rows[i].Username)
        /\ d[i].Rank = i
        /\ d[i].RaceTime = NaN /\ d[i].Speed = NaN /\ d[i].Distance = NaN

-----------------------------------------------------------------------------
(* Source resolution *)

\* C1 as stated: whenever the live file exists, parses, has status
\* "completed" and carries a results collection (empty or not), the cycle
\* returns the live file's records, tags the session metadata as live
\* results and reads no backup file and no participant list.
C1_LiveAlwaysWins_AsStated ==
    Loaded /\ LiveCompleted =>
        /\ RecordsOf(df, live.content.results)
        /\ race_metadata.set
        /\ race_metadata.data_source = SrcLive
        /\ opened = {LATEST}

\* C1 amended: whenever the live file exists, parses, has status "completed"
\* and carries a NON-EMPTY results collection, the cycle returns exactly the
\* live file's records, tags the session metadata as live results, and reads
\* no backup file and no participant list, whatever the backup files, their
\* creation times and the participant list are.
C1_LiveAlwaysWins ==
    Loaded /\ LiveCompleted /\ live.content.results # <<>> =>
        /\ RecordsOf(df, live.content.results)
        /\ ~raised
        /\ race_metadata.set
        /\ race_metadata.data_source = SrcLive
        /\ opened = {LATEST}
        /\ latest_file = NoFile

\* A completed live file was loaded although both backup files exist, are
\* readable, hold other records, one with the latest possible creation time,
\* and the participant list exists.
C1_Witness ==
    /\ Loaded /\ LiveCompleted /\ live.content.results # <<>>
    /\ df # <<>>
    /\ Readable = Paths
    /\ \A p \in Paths : backups[p].content.results \notin {<<>>, live.content.results}
    /\ \E p \in Paths : backups[p].ctime = MaxCtime
    /\ csv.exists /\ csv.rows # <<>>

\* C2: when the live file exists and parses but its status is not
\* "completed", the cycle raises no error and goes on to the backup files: if
\* at least one readable backup file (one that parses and carries records)
\* exists the returned records are those of such a backup file, and if no
\* backup file is readable the participant list is returned.
C2_NotCompletedFallsThrough ==
    Loaded /\ LiveParses /\ live.content.status # "completed" =>
        /\ race_files \in Enumerations(backups)
        /\ Usable # {} =>
            /\ ~raised
            /\ \E p \in Usable : RecordsOf(df, backups[p].content.results)
        /\ Readable = {} /\ csv.exists =>
            /\ ~raised
            /\ ParticipantsOf(df, csv.rows)

\* C3: a read failure in one tier is recovered by falling through to the
\* next: if the selected backup file cannot be parsed and the participant
\* list is readable, the cycle returns the participant list; the cycle ends
\* in the no-data outcome only when no tier offers a dataset (no completed
\* live file with records, no backup file with records, no participant list).
C3_ReadFailureFallsThrough ==
    Loaded =>
        /\ /\ latest_file # NoFile
           /\ backups[latest_file].content.st = "unreadable"
           /\ csv.exists
           => ~raised /\ ParticipantsOf(df, csv.rows)
        /\ raised =>
            /\ ~(LiveCompleted /\ live.content.results # <<>>)
            /\ Usable = {}
            /\ ~csv.exists

\* C4: a live file with status "completed" and an empty results collection
\* is not eligible: the cycle falls through to the backup files and then to
\* the participant list instead of selecting the live file.
C4_EmptyResultsNotEligible ==
    Loaded /\ LiveCompleted /\ live.content.results = <<>> =>
        /\ data_source # SrcLive
        /\ Existing # {} => latest_file \in Existing
        /\ Existing = {} /\ csv.exists => ParticipantsOf(df, csv.rows)

C6_TieBreakDeterministic ==
    Loaded /\ latest_file # NoFile =>
        \A files \in Enumerations(backups) : LatestOf(files, backups) = latest_file

\* C7: every returned collection is homogeneous on race time, average speed
\* and distance covered: all three present in every record, or all three
\* absent in every record.
C7_Homogeneous ==
    Loaded =>
        \/ \A i \in 1..Len(df) :
            df[i].RaceTime # NaN /\ df[i].Speed # NaN /\ df[i].Distance # NaN
        \/ \A i \in 1..Len(df) :
            df[i].RaceTime = NaN /\ df[i].Speed = NaN /\ df[i].Distance = NaN

-----------------------------------------------------------------------------
(* Normalization *)

\* The cycle returned the records of the live file.
LiveLoaded == Loaded /\ ~raised /\ LiveCompleted /\ df # <<>>

-----------------------------------------------------------------------------
(* Analytics *)

\* q occurs in u as a literal substring, case ignored.
ContainsLiterally(u, q) ==
    \E i \in 0..(Len(u) - Len(q)) :
        \A j \in 1..Len(q) : Lower(q[j]) = Lower(u[i + j])

LiteralMatches(q) == SelectSeq(df, LAMBDA r : ContainsLiterally(r.Username, q))

\* C9: search returns, in collection order, exactly the records whose
\* username contains the query as a case-insensitive literal substring; the
\* empty query returns the full collection, a query contained in no username
\* returns the empty sequence, and no query raises.
C9_SearchIsLiteralSubstring ==
    /\ pc # "re_error"
    /\ pc \in {"searched", "tabled", "done"} /\ search_username # <<>> =>
        search_results = LiteralMatches(search_username)
    /\ pc = "tabled" => filtered_df = LiteralMatches(search_term)

Facts ==
    {<<"Boosts Used", fun_facts.booster>>, <<"Collisions", fun_facts.crash>>,
     <<"Distance Covered (km)", fun_facts.distance>>, <<"Speed (km/h)", fun_facts.speed>>}

\* Row i holds the maximum of column f.
HoldsMax(i, f) ==
    /\ i \in 1..Len(df)
    /\ Column(df[i], f) # NaN
    /\ \A j \in 1..Len(df) : Column(df[j], f) <= Column(df[i], f)

Tied(i, f) == {j \in 1..Len(df) : Column(df[j], f) = Column(df[i], f)}

RankAscending == \A i, j \in 1..Len(df) : i < j => df[i].Rank < df[j].Rank

\* C10 as stated: each superlative is a record holding the maximum of its
\* field, and of the records tied at the maximum the one with the lowest
\* rank, in whatever order the producer listed the records.
C10_TieToLowestRank_AsStated ==
    pc = "done" =>
        \A x \in Facts :
            /\ HoldsMax(x[2], x[1])
            /\ \A j \in Tied(x[2], x[1]) : df[x[2]].Rank <= df[j].Rank

\* C10 amended: each superlative is a record holding the maximum of its
\* field, and of the records tied at the maximum the one the producer listed
\* FIRST; that is the one with the lowest rank whenever the producer listed
\* the records in ascending rank order, and need not be otherwise.
C10_TieToFirstListed ==
    pc = "done" =>
        \A x \in Facts :
            /\ HoldsMax(x[2], x[1])
            /\ \A j \in Tied(x[2], x[1]) : x[2] <= j
            /\ RankAscending => \A j \in Tied(x[2], x[1]) : df[x[2]].Rank <= df[j].Rank

\* Boosts 3, 7, 7 listed in rank order: the record ranked 2 is reported.
C10_Witness ==
    /\ pc = "done"
    /\ Len(df) = 3
    /\ RankAscending
    /\ df[1].BoostsUsed = 3 /\ df[2].BoostsUsed = 7 /\ df[3].BoostsUsed = 7
    /\ fun_facts.booster = 2

-----------------------------------------------------------------------------
(* Relative performance *)

\* A search was made and its results were shown.
Searched == pc \in {"searched", "tabled", "done", "idxmax_error"} /\ search_username # <<>>

\* The sum of the race times present in the collection.
TotalTime ==
    LET S[i \in 0..Len(df)] ==
            IF i = 0 THEN 0
            ELSE S[i - 1] + (IF df[i].RaceTime = NaN THEN 0 ELSE df[i].RaceTime)
    IN  S[Len(df)]

PresentTimes == {i \in 1..Len(df) : df[i].RaceTime # NaN}

\* The records strictly slower than r.
Slower(r) == {i \in PresentTimes : r.RaceTime # NaN /\ df[i].RaceTime > r.RaceTime}

\* Entry i of performance is the relative performance of search result i.
RelativePerformanceOf(i) ==
    LET r == search_results[i]
        p == performance[i]
    IN  /\ p.faster_than.den > 0
        /\ p.faster_than.num * Len(df) = 100 * Cardinality(Slower(r)) * p.faster_than.den
        /\ p.faster_than.num < 100 * p.faster_than.den
        /\ r.RaceTime # NaN =>
            /\ ~p.time_diff.nan
            /\ p.time_diff.den > 0
            /\ p.time_diff.num * Cardinality(PresentTimes)
                = (r.RaceTime * Cardinality(PresentTimes) - TotalTime) * p.time_diff.den

\* C11 as stated: relative performance is never produced for a pending
\* collection; for a raced collection of any size n >= 1 it is produced for
\* every record found, with percentileFasterThan = 100 * (records strictly
\* slower) / n, below 100, and delta = the record's time minus the mean of the
\* present times.
C11_RelativePerformance_AsStated ==
    Searched =>
        /\ ~has_race_data => performance = <<>>
        /\ has_race_data =>
            /\ Len(performance) = Len(search_results)
            /\ \A i \in 1..Len(search_results) : RelativePerformanceOf(i)

\* C11 amended: relative performance is never produced for a pending
\* collection, nor for a raced collection of a single record; for a raced
\* collection of size n >= 2 it is produced for every record found, with
\* percentileFasterThan = 100 * (records strictly slower) / n, so that ties
\* are not counted and the value is below 100, and delta = the record's time
\* minus the mean of the present times.
C11_RelativePerformance ==
    Searched =>
        /\ ~has_race_data \/ Len(df) < 2 => performance = <<>>
        /\ has_race_data /\ Len(df) >= 2 =>
            /\ Len(performance) = Len(search_results)
            /\ \A i \in 1..Len(search_results) : RelativePerformanceOf(i)

\* A record tied with another on race time was found in a raced collection
\* that also holds a slower record: its percentile counts only the slower one.
C11_Witness ==
    /\ Searched /\ has_race_data /\ Len(df) = 3
    /\ \E i \in 1..Len(search_results) :
        /\ search_results[i].RaceTime = 10
        /\ Cardinality({j \in 1..Len(df) : df[j].RaceTime = 10}) = 2
        /\ Cardinality(Slower(search_results[i])) = 1
        /\ performance[i].faster_than = [num |-> 100, den |-> 3]
        /\ performance[i].time_diff.num < 0

-----------------------------------------------------------------------------
(* Session metadata *)

\* C12: the metadata written by a successful cycle has non-negative counts
\* with finishers <= total_participants, whatever the payload declares or
\* omits; for the participant list finishers = 0, race_duration = 0 and
\* total_participants is the number of returned records.
C12_MetadataCounts ==
    Loaded /\ ~raised =>
        /\ race_metadata.set
        /\ race_metadata.finishers >= 0
        /\ race_metadata.total_participants >= 0
        /\ race_metadata.finishers <= race_metadata.total_participants
        /\ race_metadata.data_source = SrcCsv =>
            /\ race_metadata.finishers = 0
            /\ race_metadata.race_duration = 0
            /\ race_metadata.total_participants = Len(df)

\* The metadata m names the tier the returned DataFrame came from: the live
\* file, the backup file the cycle opened, or the participant list.
NamesProducer(m) ==
    \/ /\ m.data_source = SrcLive
       /\ opened = {LATEST}
       /\ LiveCompleted
       /\ RecordsOf(df, live.content.results)
    \/ \E p \in Existing :
        /\ m.data_source = SrcBackup(p)
        /\ p \in opened /\ CSVFILE \notin opened
        /\ RecordsOf(df, backups[p].content.results)
    \/ /\ m.data_source = SrcCsv
       /\ CSVFILE \in opened
       /\ csv.exists
       /\ ParticipantsOf(df, csv.rows)

\* C13: over the runs of a session whose files change between the runs, the
\* metadata the presenter reads next to a non-empty DataFrame was assigned by
\* the load of the same run and names the tier that DataFrame came from; a
\* load that fails returns the empty DataFrame, and the run then stops
\* without reading the metadata an earlier run left in the session state.
C13_MetadataOfSameCycle ==
    /\ pc = "shown" =>
        /\ df # <<>>
        /\ shown_metadata.set
        /\ meta_cycle = cycle
        /\ NamesProducer(shown_metadata)
    /\ raised =>
        /\ df = <<>>
        /\ pc \in {"loaded", "failed"}
    /\ pc = "failed" => df = <<>> /\ ~shown_metadata.set

\* A later run shows a DataFrame from another tier than the one whose
\* metadata the session state held when the run began.
C13_Witness ==
    /\ pc = "shown"
    /\ cycle > 1
    /\ stale_metadata.set
    /\ stale_metadata.data_source # shown_metadata.data_source

====
